---- MODULE Spec2Model ----
(***************************************************************************)
(* Model of the avatar crop dialog                                         *)
(* (src/src/components/settings/AvatarCropDialog.tsx).                     *)
(*                                                                         *)
(* Numbers of the component (scale, offset, display sizes, source          *)
(* rectangle) are modelled as exact rationals <<n, d>> in lowest terms     *)
(* with d > 0; the rounding of IEEE doubles is outside the model.          *)
(* Pointer coordinates and native image dimensions are integers.           *)
(*                                                                         *)
(* The parent owns scale, offset, open and imageSrc and hands them down as *)
(* props; the dialog owns imageSize, isDragging and the dragState ref.     *)
(* One action is one event handler run to completion.  The two useEffect   *)
(* callbacks are steps of their own: a handler marks them pending and no   *)
(* further user event is handled until they have run.                      *)
(***************************************************************************)
EXTENDS Integers, Sequences, FiniteSets, TLC

(***************************************************************************)
(* Exact rational arithmetic.                                              *)
(***************************************************************************)
Abs(i) == IF i < 0 THEN -i ELSE i

RECURSIVE GCD(_, _)
GCD(a, b) == IF b = 0 THEN a ELSE GCD(b, a % b)

LCM(a, b) == (a \div GCD(a, b)) * b

Norm(n, d) ==
  LET g == GCD(Abs(n), Abs(d))
      s == IF d < 0 THEN -1 ELSE 1
  IN  <<(s * n) \div g, (s * d) \div g>>

R(i) == <<i, 1>>

RAdd(a, b) ==
  LET l == LCM(a[2], b[2])
  IN  Norm(a[1] * (l \div a[2]) + b[1] * (l \div b[2]), l)

RNeg(a) == <<-a[1], a[2]>>

RSub(a, b) == RAdd(a, RNeg(b))

RMul(a, b) ==
  LET x == Norm(a[1], b[2])
      y == Norm(b[1], a[2])
  IN  Norm(x[1] * y[1], x[2] * y[2])

RDiv(a, b) == RMul(a, Norm(b[2], b[1]))

RLe(a, b) ==
  LET l == LCM(a[2], b[2])
  IN  a[1] * (l \div a[2]) <= b[1] * (l \div b[2])

RLt(a, b) == ~RLe(b, a)

RMax(a, b) == IF RLe(a, b) THEN b ELSE a

RMin(a, b) == IF RLe(a, b) THEN a ELSE b

RAbs(a) == <<Abs(a[1]), a[2]>>

(***************************************************************************)
(* Constants of the component.                                             *)
(***************************************************************************)
CROP_SIZE == 240

OUTPUT_SIZE == 256

NULL == [null |-> TRUE]

ZERO == [x |-> R(0), y |-> R(0)]

UNKNOWN == [width |-> 0, height |-> 0]

VARIABLES
  open,        \* prop: the dialog is shown
  imageSrc,    \* prop: the image the <img> element is given
  scale,       \* prop: user zoom factor, held by the parent
  offset,      \* prop: pan vector [x, y], held by the parent
  imageSize,   \* useState: cached native dimensions, (0, 0) when unknown
  isDragging,  \* useState: drag flag
  dragState,   \* useRef: NULL or the press snapshot [x, y, offsetX, offsetY]
  capture,     \* pointer ids whose capture the crop surface holds
  img,         \* state of the <img> element: none, loading, complete, broken
  effects,     \* useEffect callbacks scheduled by the last render
  exports,     \* handleApply: the canvases whose encode (toBlob) is in flight
  calls,       \* outward calls made by the last step (callbacks, drawImage)
  budget,      \* presses, zoom clicks and exports left to explore
  hist,        \* history of the drag gestures, for the drag sequence claims
  fn           \* history of the direct applications of clampOffset

vars == <<open, imageSrc, scale, offset, imageSize, isDragging, dragState,
          capture, img, effects, exports, calls, budget, hist, fn>>

(***************************************************************************)
(* Inputs of the environment.                                              *)
(***************************************************************************)
\* Images the parent can hand to the dialog; "broken" never decodes.
Images == {"landscape", "broken"}

\* Native dimensions of an image once it is decoded.
Natural(src) ==
  IF src = "landscape" THEN [width |-> 1000, height |-> 600]
  ELSE IF src = "portrait" THEN [width |-> 240, height |-> 480]
  ELSE UNKNOWN

\* Sources the parent can replace the shown one with while the dialog stays
\* open: two that decode, of different native sizes, and one that does not.
SrcImages == {"landscape", "portrait", "broken"}

\* clientX / clientY of the pointer events.
Positions == {<<0, 0>>, <<100, 50>>}

\* event.pointerId, event.pointerType and event.button of a pointer event.
Pointers == {1, 2}

PointerTypes == {"mouse", "touch"}

Buttons == {0, 2}

\* Values the range input can deliver (min 1, max 3, step 0.01).
SliderValues == {R(1), R(3)}

\* Presses, zoom clicks and exports explored in one behaviour.
MaxPresses == 1

MaxZooms == 1

MaxApply == 1

\* Presses explored in one behaviour of the drag specification.
MaxDragPresses == 2

\* Inputs of the direct applications of clampOffset: native sizes (0 is an
\* unknown dimension), scales, offset components, and how often it is applied.
ClampDims == {0, 1, 11, 240, 480, 1000}

ClampSizes == {[width |-> w, height |-> h] : w \in ClampDims, h \in ClampDims}

ClampScales == {R(1), <<11, 10>>, R(2), R(3)}

ClampCoords == {R(-5000), R(-120), R(0), <<81, 2>>, R(5000)}

ClampOffsets == {[x |-> a, y |-> b] : a \in ClampCoords, b \in ClampCoords}

MaxClampRuns == 2

\* Inputs of the direct runs of the export: known native sizes, scales and
\* offsets, and how many exports are issued from the same inputs.
ExportSizes == {[width |-> 1000, height |-> 600], [width |-> 240, height |-> 480],
                [width |-> 11, height |-> 480]}

ExportScales == {R(1), <<3, 2>>, R(3)}

ExportOffsets == {ZERO, [x |-> R(10), y |-> R(-5)], [x |-> <<81, 2>>, y |-> R(120)]}

MaxExportRuns == 2

\* Scales and offsets the zoom controls start from (the offsets are within
\* the pan bounds of the 1000x600 image at every scale), and the clicks
\* explored.
ZoomScales == {R(1), <<21, 20>>, <<3, 2>>, <<59, 20>>, R(3)}

ZoomOffsets == {ZERO, [x |-> R(80), y |-> R(0)]}

MaxZoomRuns == 3

\* States in which the re-clamp effect is pending: the cached size, the
\* scale and the stored offset the render that scheduled it saw.
ReclampSizes == {UNKNOWN, [width |-> 1000, height |-> 600],
                 [width |-> 240, height |-> 480]}

\* Scale and offset a parent can hand to the dialog when it mounts it.
ParentScales == {<<1, 2>>, R(1), R(4)}

ParentOffsets == {ZERO, [x |-> R(500), y |-> R(-500)]}

(***************************************************************************)
(* Viewport transform engine.                                              *)
(***************************************************************************)
Known(size) == size.width # 0 /\ size.height # 0

\* baseScale with the two quotients combined by min ("contain" fit).
baseScaleContain ==
  IF ~Known(imageSize) THEN R(1)
  ELSE RMin(RDiv(R(CROP_SIZE), R(imageSize.width)),
            RDiv(R(CROP_SIZE), R(imageSize.height)))

baseScale ==
  IF ~Known(imageSize) THEN R(1)
  ELSE RMax(RDiv(R(CROP_SIZE), R(imageSize.width)),
            RDiv(R(CROP_SIZE), R(imageSize.height)))

\* clampOffset without the lower clamp Math.max(-max, .).
clampOffsetUpperOnly(nextOffset, nextScale) ==
  IF ~Known(imageSize) THEN nextOffset
  ELSE LET displayScale  == RMul(baseScale, nextScale)
           displayWidth  == RMul(R(imageSize.width), displayScale)
           displayHeight == RMul(R(imageSize.height), displayScale)
           maxX == RMax(R(0), RDiv(RSub(displayWidth, R(CROP_SIZE)), R(2)))
           maxY == RMax(R(0), RDiv(RSub(displayHeight, R(CROP_SIZE)), R(2)))
       IN  [x |-> RMin(maxX, nextOffset.x),
            y |-> RMin(maxY, nextOffset.y)]

\* clampOffset reading nextOffset.y for x and nextOffset.x for y.
clampOffsetTransposed(nextOffset, nextScale) ==
  IF ~Known(imageSize) THEN nextOffset
  ELSE LET displayScale  == RMul(baseScale, nextScale)
           displayWidth  == RMul(R(imageSize.width), displayScale)
           displayHeight == RMul(R(imageSize.height), displayScale)
           maxX == RMax(R(0), RDiv(RSub(displayWidth, R(CROP_SIZE)), R(2)))
           maxY == RMax(R(0), RDiv(RSub(displayHeight, R(CROP_SIZE)), R(2)))
       IN  [x |-> RMin(maxX, RMax(RNeg(maxX), nextOffset.y)),
            y |-> RMin(maxY, RMax(RNeg(maxY), nextOffset.x))]

\* clampOffset taking maxX from the height and maxY from the width.
clampOffsetAxesSwapped(nextOffset, nextScale) ==
  IF ~Known(imageSize) THEN nextOffset
  ELSE LET displayScale  == RMul(baseScale, nextScale)
           displayWidth  == RMul(R(imageSize.width), displayScale)
           displayHeight == RMul(R(imageSize.height), displayScale)
           maxX == RMax(R(0), RDiv(RSub(displayHeight, R(CROP_SIZE)), R(2)))
           maxY == RMax(R(0), RDiv(RSub(displayWidth, R(CROP_SIZE)), R(2)))
       IN  [x |-> RMin(maxX, RMax(RNeg(maxX), nextOffset.x)),
            y |-> RMin(maxY, RMax(RNeg(maxY), nextOffset.y))]

\* clampOffset without the early return for a zero width or height.
clampOffsetNoGuard(nextOffset, nextScale) ==
  LET displayScale  == RMul(baseScale, nextScale)
      displayWidth  == RMul(R(imageSize.width), displayScale)
      displayHeight == RMul(R(imageSize.height), displayScale)
      maxX == RMax(R(0), RDiv(RSub(displayWidth, R(CROP_SIZE)), R(2)))
      maxY == RMax(R(0), RDiv(RSub(displayHeight, R(CROP_SIZE)), R(2)))
  IN  [x |-> RMin(maxX, RMax(RNeg(maxX), nextOffset.x)),
       y |-> RMin(maxY, RMax(RNeg(maxY), nextOffset.y))]

clampOffset(nextOffset, nextScale) ==
  IF ~Known(imageSize) THEN nextOffset
  ELSE LET displayScale  == RMul(baseScale, nextScale)
           displayWidth  == RMul(R(imageSize.width), displayScale)
           displayHeight == RMul(R(imageSize.height), displayScale)
           maxX == RMax(R(0), RDiv(RSub(displayWidth, R(CROP_SIZE)), R(2)))
           maxY == RMax(R(0), RDiv(RSub(displayHeight, R(CROP_SIZE)), R(2)))
       IN  [x |-> RMin(maxX, RMax(RNeg(maxX), nextOffset.x)),
            y |-> RMin(maxY, RMax(RNeg(maxY), nextOffset.y))]

(***************************************************************************)
(* Callbacks of the parent, which stores what it is handed.                *)
(***************************************************************************)
Call(name, value) == [fn |-> name, arg |-> value]

onScaleChange(value) ==
  /\ scale' = value
  /\ calls' = <<Call("onScaleChange", [value |-> value])>>

onOffsetChange(value) ==
  /\ offset' = value
  /\ calls' = <<Call("onOffsetChange", value)>>

onReset ==
  /\ scale' = R(1)
  /\ offset' = ZERO
  /\ calls' = <<Call("onReset", NULL)>>

onClose ==
  /\ open' = FALSE
  /\ calls' = <<Call("onClose", NULL)>>

(***************************************************************************)
(* Rendering: the effects a render schedules.                              *)
(***************************************************************************)
\* The re-clamp effect is scheduled when one of its dependencies changed,
\* the close-reset effect when open changed.
Scheduled ==
  (IF <<offset', scale', imageSize'>> # <<offset, scale, imageSize>>
     THEN {"reclamp"} ELSE {})
  \cup (IF open' # open THEN {"closeReset"} ELSE {})

\* A user event is handled only when the dialog is shown and the effects of
\* the previous render have run.
Ready == open /\ effects = {}

\* hist: cur is the gesture in progress (offset O and position P at the
\* press, position at of the last pointer event, position was of the one
\* before), last and prev the two gestures completed most recently, ev the
\* last pointer event delivered to a handler that did not return at once:
\* its kind ("press" from a primary input, "press-other" from another mouse
\* button, "move", "up"), the offset O the handler is to leave, and the
\* scale S, the idleness and the captures held when it was delivered.  An
\* event that changes scale, offset or the cached size from outside the
\* controller ends the tracking of all four.
Event(kind, o) ==
  [kind |-> kind, O |-> o, S |-> scale, idle |-> dragState = NULL,
   held |-> capture]

Primary(pointerType, button) == ~(pointerType = "mouse" /\ button # 0)

Press(pointerType, button) ==
  Event(IF Primary(pointerType, button) THEN "press" ELSE "press-other", offset)

NoHist == [cur |-> NULL, last |-> NULL, prev |-> NULL,
           ev |-> [kind |-> "none", O |-> ZERO, S |-> R(1), idle |-> TRUE,
                   held |-> {}]]

Mounted ==
  /\ open = FALSE
  /\ imageSrc = "landscape"
  /\ scale = R(1)
  /\ offset = ZERO
  /\ imageSize = UNKNOWN
  /\ isDragging = FALSE
  /\ dragState = NULL
  /\ capture = {}
  /\ img = "none"
  /\ effects = {}
  /\ exports = [inflight |-> <<>>]
  /\ calls = <<>>
  /\ hist = NoHist
  /\ fn = [n |-> 0, inp |-> ZERO, out |-> ZERO]

Init ==
  /\ Mounted
  /\ budget = [presses |-> MaxPresses, zooms |-> MaxZooms,
               applies |-> MaxApply]

(***************************************************************************)
(* The parent shows the dialog, replaces the image, closes the dialog.     *)
(***************************************************************************)
Open(src) ==
  /\ ~open /\ effects = {}
  /\ open' = TRUE
  /\ imageSrc' = src
  /\ img' = "loading"
  /\ calls' = <<>>
  /\ hist' = NoHist
  /\ UNCHANGED <<scale, offset, imageSize, isDragging, dragState, capture,
                 exports, budget, fn>>
  /\ effects' = Scheduled

ChangeSrc(src) ==
  /\ Ready
  /\ src # imageSrc
  /\ imageSrc' = src
  /\ img' = "loading"
  /\ calls' = <<>>
  /\ hist' = NoHist
  /\ UNCHANGED <<open, scale, offset, imageSize, isDragging, dragState,
                 capture, exports, budget, fn>>
  /\ effects' = Scheduled

\* Cancel, the X button and the backdrop all call onClose.  The render with
\* open = false removes the crop surface and the <img> element; a removed
\* element loses its pointer capture.
Close ==
  /\ Ready
  /\ onClose
  /\ img' = "none"
  /\ capture' = {}
  /\ hist' = NoHist
  /\ UNCHANGED <<imageSrc, scale, offset, imageSize, isDragging, dragState,
                 exports, budget, fn>>
  /\ effects' = Scheduled

(***************************************************************************)
(* The two effects.                                                        *)
(***************************************************************************)
\* The re-clamp effect comparing the x component only.
ReclampEffectXOnly ==
  /\ "reclamp" \in effects
  /\ LET clamped == clampOffset(offset, scale)
     IN  IF clamped.x = offset.x
           THEN UNCHANGED offset /\ calls' = <<>>
           ELSE onOffsetChange(clamped)
  /\ UNCHANGED <<open, imageSrc, scale, imageSize, isDragging, dragState,
                 capture, img, exports, budget, hist, fn>>
  /\ effects' = (effects \ {"reclamp"}) \cup Scheduled

\* The re-clamp effect without the comparison with the stored offset.
ReclampEffectAlways ==
  /\ "reclamp" \in effects
  /\ onOffsetChange(clampOffset(offset, scale))
  /\ UNCHANGED <<open, imageSrc, scale, imageSize, isDragging, dragState,
                 capture, img, exports, budget, hist, fn>>
  /\ effects' = (effects \ {"reclamp"}) \cup Scheduled

ReclampEffect ==
  /\ "reclamp" \in effects
  /\ LET clamped == clampOffset(offset, scale)
     IN  IF clamped.x = offset.x /\ clamped.y = offset.y
           THEN UNCHANGED offset /\ calls' = <<>>
           ELSE onOffsetChange(clamped)
  /\ UNCHANGED <<open, imageSrc, scale, imageSize, isDragging, dragState,
                 capture, img, exports, budget, hist, fn>>
  /\ effects' = (effects \ {"reclamp"}) \cup Scheduled

\* The close-reset effect leaving the cached size as it is.
CloseResetEffectKeep ==
  /\ "closeReset" \in effects
  /\ calls' = <<>>
  /\ UNCHANGED <<open, imageSrc, scale, offset, imageSize, isDragging,
                 dragState, capture, img, exports, budget, hist, fn>>
  /\ effects' = (effects \ {"closeReset"}) \cup Scheduled

CloseResetEffect ==
  /\ "closeReset" \in effects
  /\ imageSize' = IF ~open THEN UNKNOWN ELSE imageSize
  /\ calls' = <<>>
  /\ UNCHANGED <<open, imageSrc, scale, offset, isDragging, dragState,
                 capture, img, exports, budget, hist, fn>>
  /\ effects' = (effects \ {"closeReset"}) \cup Scheduled

(***************************************************************************)
(* The <img> element.                                                      *)
(***************************************************************************)
handleImageLoad ==
  /\ Ready
  /\ img = "loading"
  /\ Known(Natural(imageSrc))
  /\ img' = "complete"
  /\ imageSize' = Natural(imageSrc)
  /\ calls' = <<>>
  /\ hist' = NoHist
  /\ UNCHANGED <<open, imageSrc, scale, offset, isDragging, dragState,
                 capture, exports, budget, fn>>
  /\ effects' = Scheduled

\* The source does not decode; the element has no onError handler.
ImageError ==
  /\ Ready
  /\ img = "loading"
  /\ ~Known(Natural(imageSrc))
  /\ img' = "broken"
  /\ calls' = <<>>
  /\ UNCHANGED <<open, imageSrc, scale, offset, imageSize, isDragging,
                 dragState, capture, effects, exports, budget, hist, fn>>

(***************************************************************************)
(* Pointer-drag controller.                                                *)
(***************************************************************************)
\* handlePointerDown recording a zero offset in the snapshot.
handlePointerDownStale(pos, pointerId, pointerType, button) ==
  /\ Ready
  /\ budget.presses > 0
  /\ IF pointerType = "mouse" /\ button # 0
       THEN /\ UNCHANGED <<capture, dragState, isDragging, budget>>
            /\ hist' = [hist EXCEPT !.ev = Press(pointerType, button)]
       ELSE /\ capture' = capture \cup {pointerId}
            /\ dragState' = [x |-> pos[1], y |-> pos[2],
                             offsetX |-> R(0), offsetY |-> R(0)]
            /\ isDragging' = TRUE
            /\ hist' = [hist EXCEPT
                 !.cur = [O |-> offset, P |-> pos, at |-> pos, was |-> pos],
                 !.ev = Press(pointerType, button)]
            /\ budget' = [budget EXCEPT !.presses = @ - 1]
  /\ calls' = <<>>
  /\ UNCHANGED <<open, imageSrc, scale, offset, imageSize, img, exports, fn>>
  /\ effects' = Scheduled

\* handlePointerDown without the test of the mouse button.
handlePointerDownAnyButton(pos, pointerId, pointerType, button) ==
  /\ Ready
  /\ budget.presses > 0
  /\ capture' = capture \cup {pointerId}
  /\ dragState' = [x |-> pos[1], y |-> pos[2],
                   offsetX |-> offset.x, offsetY |-> offset.y]
  /\ isDragging' = TRUE
  /\ hist' = [hist EXCEPT
       !.cur = [O |-> offset, P |-> pos, at |-> pos, was |-> pos],
       !.ev = Press(pointerType, button)]
  /\ budget' = [budget EXCEPT !.presses = @ - 1]
  /\ calls' = <<>>
  /\ UNCHANGED <<open, imageSrc, scale, offset, imageSize, img, exports, fn>>
  /\ effects' = Scheduled

handlePointerDown(pos, pointerId, pointerType, button) ==
  /\ Ready
  /\ budget.presses > 0
  /\ IF pointerType = "mouse" /\ button # 0
       THEN /\ UNCHANGED <<capture, dragState, isDragging, budget>>
            /\ hist' = [hist EXCEPT !.ev = Press(pointerType, button)]
       ELSE /\ capture' = capture \cup {pointerId}
            /\ dragState' = [x |-> pos[1], y |-> pos[2],
                             offsetX |-> offset.x, offsetY |-> offset.y]
            /\ isDragging' = TRUE
            /\ hist' = [hist EXCEPT
                 !.cur = [O |-> offset, P |-> pos, at |-> pos, was |-> pos],
                 !.ev = Press(pointerType, button)]
            /\ budget' = [budget EXCEPT !.presses = @ - 1]
  /\ calls' = <<>>
  /\ UNCHANGED <<open, imageSrc, scale, offset, imageSize, img, exports, fn>>
  /\ effects' = Scheduled

\* The gesture in progress after a pointer event at pos.
Moved(pos) ==
  IF hist.cur = NULL THEN NULL
  ELSE [hist.cur EXCEPT !.was = hist.cur.at, !.at = pos]

\* handlePointerMove adding the delta to the current offset, not the snapshot.
handlePointerMoveIncremental(pos) ==
  /\ Ready
  /\ IF dragState = NULL
       THEN UNCHANGED <<offset, hist>> /\ calls' = <<>>
       ELSE LET deltaX == pos[1] - dragState.x
                deltaY == pos[2] - dragState.y
                nextOffset ==
                  clampOffset([x |-> RAdd(offset.x, R(deltaX)),
                               y |-> RAdd(offset.y, R(deltaY))],
                              scale)
            IN  /\ onOffsetChange(nextOffset)
                /\ hist' = [hist EXCEPT !.cur = Moved(pos),
                                        !.ev = Event("move", nextOffset)]
  /\ UNCHANGED <<open, imageSrc, scale, imageSize, isDragging, dragState,
                 capture, img, exports, budget, fn>>
  /\ effects' = Scheduled

\* handlePointerMove handing the candidate offset on without clampOffset.
handlePointerMoveUnclamped(pos) ==
  /\ Ready
  /\ IF dragState = NULL
       THEN UNCHANGED <<offset, hist>> /\ calls' = <<>>
       ELSE LET deltaX == pos[1] - dragState.x
                deltaY == pos[2] - dragState.y
                nextOffset ==
                  [x |-> RAdd(dragState.offsetX, R(deltaX)),
                   y |-> RAdd(dragState.offsetY, R(deltaY))]
            IN  /\ onOffsetChange(nextOffset)
                /\ hist' = [hist EXCEPT !.cur = Moved(pos),
                                        !.ev = Event("move", nextOffset)]
  /\ UNCHANGED <<open, imageSrc, scale, imageSize, isDragging, dragState,
                 capture, img, exports, budget, fn>>
  /\ effects' = Scheduled

handlePointerMove(pos) ==
  /\ Ready
  /\ IF dragState = NULL
       THEN UNCHANGED <<offset, hist>> /\ calls' = <<>>
       ELSE LET deltaX == pos[1] - dragState.x
                deltaY == pos[2] - dragState.y
                nextOffset ==
                  clampOffset([x |-> RAdd(dragState.offsetX, R(deltaX)),
                               y |-> RAdd(dragState.offsetY, R(deltaY))],
                              scale)
            IN  /\ onOffsetChange(nextOffset)
                /\ hist' = [hist EXCEPT !.cur = Moved(pos),
                                        !.ev = Event("move", nextOffset)]
  /\ UNCHANGED <<open, imageSrc, scale, imageSize, isDragging, dragState,
                 capture, img, exports, budget, fn>>
  /\ effects' = Scheduled

\* The gestures on record after the release of the gesture in progress.
Released ==
  IF hist.cur = NULL
    THEN [hist EXCEPT !.ev = Event("up", offset)]
    ELSE [cur  |-> NULL,
          prev |-> hist.last,
          last |-> [O |-> hist.cur.O,
                    D |-> <<hist.cur.at[1] - hist.cur.P[1],
                            hist.cur.at[2] - hist.cur.P[2]>>,
                    final |-> offset],
          ev   |-> Event("up", offset)]

\* handlePointerUp clearing the snapshot and leaving isDragging as it is.
handlePointerUpKeepFlag(pointerId) ==
  /\ Ready
  /\ IF dragState = NULL
       THEN UNCHANGED <<capture, dragState, hist>>
       ELSE /\ capture' = capture \ {pointerId}
            /\ dragState' = NULL
            /\ hist' = Released
  /\ calls' = <<>>
  /\ UNCHANGED <<open, imageSrc, scale, offset, imageSize, isDragging, img,
                 exports, budget, fn>>
  /\ effects' = Scheduled

handlePointerUp(pointerId) ==
  /\ Ready
  /\ IF dragState = NULL
       THEN UNCHANGED <<capture, dragState, isDragging, hist>>
       ELSE /\ capture' = capture \ {pointerId}
            /\ dragState' = NULL
            /\ isDragging' = FALSE
            /\ hist' = Released
  /\ calls' = <<>>
  /\ UNCHANGED <<open, imageSrc, scale, offset, imageSize, img, exports,
                 budget, fn>>
  /\ effects' = Scheduled

\* After the pointerup of a pointer the browser releases the capture of that
\* pointer if the handler, returning early, did not.
PointerUp(pointerId) ==
  IF dragState = NULL /\ pointerId \in capture
    THEN /\ Ready
         /\ capture' = capture \ {pointerId}
         /\ calls' = <<>>
         /\ UNCHANGED <<open, imageSrc, scale, offset, imageSize, isDragging,
                        dragState, img, effects, exports, budget, hist, fn>>
    ELSE handlePointerUp(pointerId)

\* onPointerLeave is wired to the same handler as onPointerUp.  The surface
\* gets no pointerleave for a pointer it holds the capture of.
PointerLeave(pointerId) ==
  /\ pointerId \notin capture
  /\ handlePointerUp(pointerId)

(***************************************************************************)
(* Zoom controls and reset.                                                *)
(***************************************************************************)
ZOOM_STEP == <<1, 10>>

ZoomOut ==
  /\ Ready
  /\ budget.zooms > 0
  /\ onScaleChange(RMax(R(1), RSub(scale, ZOOM_STEP)))
  /\ hist' = NoHist
  /\ budget' = [budget EXCEPT !.zooms = @ - 1]
  /\ UNCHANGED <<open, imageSrc, offset, imageSize, isDragging, dragState,
                 capture, img, exports, fn>>
  /\ effects' = Scheduled

\* The zoom-in button without Math.min(3, .).
ZoomInUnclamped ==
  /\ Ready
  /\ budget.zooms > 0
  /\ onScaleChange(RAdd(scale, ZOOM_STEP))
  /\ hist' = NoHist
  /\ budget' = [budget EXCEPT !.zooms = @ - 1]
  /\ UNCHANGED <<open, imageSrc, offset, imageSize, isDragging, dragState,
                 capture, img, exports, fn>>
  /\ effects' = Scheduled

ZoomIn ==
  /\ Ready
  /\ budget.zooms > 0
  /\ onScaleChange(RMin(R(3), RAdd(scale, ZOOM_STEP)))
  /\ hist' = NoHist
  /\ budget' = [budget EXCEPT !.zooms = @ - 1]
  /\ UNCHANGED <<open, imageSrc, offset, imageSize, isDragging, dragState,
                 capture, img, exports, fn>>
  /\ effects' = Scheduled

Slider(value) ==
  /\ Ready
  /\ onScaleChange(value)
  /\ hist' = NoHist
  /\ UNCHANGED <<open, imageSrc, offset, imageSize, isDragging, dragState,
                 capture, img, exports, budget, fn>>
  /\ effects' = Scheduled

Reset ==
  /\ Ready
  /\ onReset
  /\ hist' = NoHist
  /\ UNCHANGED <<open, imageSrc, imageSize, isDragging, dragState, capture,
                 img, exports, budget, fn>>
  /\ effects' = Scheduled

(***************************************************************************)
(* Raster export stage.                                                    *)
(***************************************************************************)
\* The arguments of drawImage computed without the offset.
SourceRectCentred ==
  LET displayScale  == RMul(baseScale, scale)
      displayWidth  == RMul(R(imageSize.width), displayScale)
      displayHeight == RMul(R(imageSize.height), displayScale)
      half          == RDiv(R(CROP_SIZE), R(2))
      imageLeft     == RSub(half, RDiv(displayWidth, R(2)))
      imageTop      == RSub(half, RDiv(displayHeight, R(2)))
  IN  [sourceX    |-> RDiv(RSub(R(0), imageLeft), displayScale),
       sourceY    |-> RDiv(RSub(R(0), imageTop), displayScale),
       sourceSize |-> RDiv(R(CROP_SIZE), displayScale),
       size       |-> imageSize,
       natural    |-> IF img = "complete" THEN Natural(imageSrc) ELSE UNKNOWN]

\* The arguments handleApply passes to drawImage, with the cached size they
\* were computed from and the native size the <img> element has by then.
SourceRect ==
  LET displayScale  == RMul(baseScale, scale)
      displayWidth  == RMul(R(imageSize.width), displayScale)
      displayHeight == RMul(R(imageSize.height), displayScale)
      half          == RDiv(R(CROP_SIZE), R(2))
      imageLeft     == RAdd(RSub(half, RDiv(displayWidth, R(2))), offset.x)
      imageTop      == RAdd(RSub(half, RDiv(displayHeight, R(2))), offset.y)
  IN  [sourceX    |-> RDiv(RSub(R(0), imageLeft), displayScale),
       sourceY    |-> RDiv(RSub(R(0), imageTop), displayScale),
       sourceSize |-> RDiv(R(CROP_SIZE), displayScale),
       size       |-> imageSize,
       natural    |-> IF img = "complete" THEN Natural(imageSrc) ELSE UNKNOWN]

\* ctx is the result of getContext('2d'); imageRef.current is null while no
\* <img> element is rendered.  drawImage fills the canvas before the await,
\* and the canvas is what toBlob encodes.  drawImage throws on an <img> whose
\* source failed to decode, which ends the handler before toBlob.
handleApply(ctx) ==
  /\ Ready
  /\ budget.applies > 0
  /\ budget' = [budget EXCEPT !.applies = @ - 1]
  /\ IF img = "none" \/ ~ctx
       THEN UNCHANGED exports /\ calls' = <<>>
       ELSE /\ calls' = <<Call("drawImage", SourceRect)>>
            /\ exports' = [exports EXCEPT
                 !.inflight = IF img = "broken" THEN @
                              ELSE Append(@, SourceRect)]
  /\ UNCHANGED <<open, imageSrc, scale, offset, imageSize, isDragging,
                 dragState, capture, img, effects, hist, fn>>

Remove(seq, i) == SubSeq(seq, 1, i - 1) \o SubSeq(seq, i + 1, Len(seq))

\* The continuation after the await reading the viewport again.
EncodeDoneLive(i, ok) ==
  /\ effects = {}
  /\ i \in 1..Len(exports.inflight)
  /\ exports' = [exports EXCEPT !.inflight = Remove(@, i)]
  /\ LET blob == IF ok THEN [png |-> SourceRect] ELSE NULL
     IN  calls' = IF blob # NULL THEN <<Call("onApply", blob)>> ELSE <<>>
  /\ UNCHANGED <<open, imageSrc, scale, offset, imageSize, isDragging,
                 dragState, capture, img, effects, budget, hist, fn>>

\* The continuation after the await without the test of the blob.
EncodeDoneUnchecked(i, ok) ==
  /\ effects = {}
  /\ i \in 1..Len(exports.inflight)
  /\ exports' = [exports EXCEPT !.inflight = Remove(@, i)]
  /\ LET blob == IF ok THEN [png |-> exports.inflight[i]] ELSE NULL
     IN  calls' = <<Call("onApply", blob)>>
  /\ UNCHANGED <<open, imageSrc, scale, offset, imageSize, isDragging,
                 dragState, capture, img, effects, budget, hist, fn>>

\* The toBlob callback of the i-th encode in flight resolves the promise,
\* with the encoded canvas or (ok false) with null; a blob is handed to
\* onApply.
EncodeDone(i, ok) ==
  /\ effects = {}
  /\ i \in 1..Len(exports.inflight)
  /\ exports' = [exports EXCEPT !.inflight = Remove(@, i)]
  /\ LET blob == IF ok THEN [png |-> exports.inflight[i]] ELSE NULL
     IN  calls' = IF blob # NULL THEN <<Call("onApply", blob)>> ELSE <<>>
  /\ UNCHANGED <<open, imageSrc, scale, offset, imageSize, isDragging,
                 dragState, capture, img, effects, budget, hist, fn>>

(***************************************************************************)
(* Specifications.                                                         *)
(***************************************************************************)
Viewport ==
  \/ \E src \in Images : Open(src)
  \/ Close
  \/ ReclampEffect
  \/ CloseResetEffect
  \/ handleImageLoad
  \/ ImageError
  \/ \E pos \in Positions, id \in Pointers, t \in PointerTypes, b \in Buttons :
       handlePointerDown(pos, id, t, b)
  \/ \E pos \in Positions : handlePointerMove(pos)
  \/ \E id \in Pointers : PointerUp(id)
  \/ \E id \in Pointers : PointerLeave(id)
  \/ ZoomOut
  \/ ZoomIn
  \/ \E value \in SliderValues : Slider(value)
  \/ Reset

Next ==
  \/ Viewport
  \/ \E ctx \in BOOLEAN : handleApply(ctx)
  \/ \E i \in 1..Len(exports.inflight), ok \in BOOLEAN : EncodeDone(i, ok)

Spec == Init /\ [][Next]_vars

\* The export stage next to a viewport whose drag, by one touch pointer on an
\* image that decodes, began before the first export: the events an encode
\* in flight can meet.  InitApply is the state after Open("landscape"), the
\* close-reset effect and a press at (0, 0).
InitApply ==
  /\ open = TRUE
  /\ imageSrc = "landscape"
  /\ scale = R(1)
  /\ offset = ZERO
  /\ imageSize = UNKNOWN
  /\ isDragging = TRUE
  /\ dragState = [x |-> 0, y |-> 0, offsetX |-> R(0), offsetY |-> R(0)]
  /\ capture = {1}
  /\ img = "loading"
  /\ effects = {}
  /\ exports = [inflight |-> <<>>]
  /\ calls = <<>>
  /\ hist = [NoHist EXCEPT
       !.cur = [O |-> ZERO, P |-> <<0, 0>>, at |-> <<0, 0>>, was |-> <<0, 0>>],
       !.ev = [kind |-> "press", O |-> ZERO, S |-> R(1), idle |-> TRUE,
               held |-> {}]]
  /\ fn = [n |-> 0, inp |-> ZERO, out |-> ZERO]
  /\ budget = [presses |-> 0, zooms |-> MaxZooms, applies |-> MaxApply]

NextApply ==
  \/ Close
  \/ ReclampEffect
  \/ CloseResetEffect
  \/ handleImageLoad
  \/ \E pos \in Positions : handlePointerMove(pos)
  \/ PointerUp(1)
  \/ ZoomOut
  \/ ZoomIn
  \/ \E value \in SliderValues : Slider(value)
  \/ Reset
  \/ \E ctx \in BOOLEAN : handleApply(ctx)
  \/ \E i \in 1..Len(exports.inflight), ok \in BOOLEAN : EncodeDone(i, ok)

SpecApply == InitApply /\ [][NextApply]_vars

\* The export run on drawn inputs: a decoded image, a scale and an offset.
InitExport ==
  /\ open = TRUE
  /\ imageSrc = "landscape"
  /\ imageSize \in ExportSizes
  /\ scale \in ExportScales
  /\ offset \in ExportOffsets
  /\ isDragging = FALSE
  /\ dragState = NULL
  /\ capture = {}
  /\ img = "complete"
  /\ effects = {}
  /\ exports = [inflight |-> <<>>]
  /\ calls = <<>>
  /\ hist = NoHist
  /\ fn = [n |-> 0, inp |-> offset, out |-> offset]
  /\ budget = [presses |-> 0, zooms |-> 0, applies |-> MaxExportRuns]

NextExport ==
  \/ \E ctx \in BOOLEAN : handleApply(ctx)
  \/ \E i \in 1..Len(exports.inflight), ok \in BOOLEAN : EncodeDone(i, ok)

SpecExport == InitExport /\ [][NextExport]_vars

\* The zoom controls on a decoded image, from drawn scales.
InitZoom ==
  /\ open = TRUE
  /\ imageSrc = "landscape"
  /\ imageSize = Natural("landscape")
  /\ scale \in ZoomScales
  /\ offset \in ZoomOffsets
  /\ isDragging = FALSE
  /\ dragState = NULL
  /\ capture = {}
  /\ img = "complete"
  /\ effects = {}
  /\ exports = [inflight |-> <<>>]
  /\ calls = <<>>
  /\ hist = NoHist
  /\ fn = [n |-> 0, inp |-> ZERO, out |-> ZERO]
  /\ budget = [presses |-> 0, zooms |-> MaxZoomRuns, applies |-> 0]

NextZoom ==
  \/ ReclampEffect
  \/ ZoomOut
  \/ ZoomIn
  \/ \E value \in SliderValues : Slider(value)

SpecZoom == InitZoom /\ [][NextZoom]_vars

\* The re-clamp effect after a change of scale, offset or image size, and
\* the zoom controls that trigger it again.  React runs a scheduled effect
\* after the render that scheduled it: the effect is weakly fair.  The
\* fairness condition is WF_vars(ReclampEffect) with the enabledness of the
\* effect written as its guard, "reclamp" \in effects.
InitReclamp ==
  /\ open = TRUE
  /\ imageSrc = "landscape"
  /\ imageSize \in ReclampSizes
  /\ scale \in ClampScales
  /\ offset \in ClampOffsets
  /\ isDragging = FALSE
  /\ dragState = NULL
  /\ capture = {}
  /\ img = IF Known(imageSize) THEN "complete" ELSE "loading"
  /\ effects = {"reclamp"}
  /\ exports = [inflight |-> <<>>]
  /\ calls = <<>>
  /\ hist = NoHist
  /\ fn = [n |-> 0, inp |-> offset, out |-> offset]
  /\ budget = [presses |-> 0, zooms |-> MaxZooms, applies |-> 0]

NextReclamp ==
  \/ ReclampEffect
  \/ ZoomOut
  \/ ZoomIn
  \/ \E value \in SliderValues : Slider(value)

SpecReclamp ==
  /\ InitReclamp /\ [][NextReclamp]_vars
  /\ <>[]("reclamp" \in effects) => []<><<ReclampEffect>>_vars

\* The dialog mounted by a parent that holds any scale and any offset.
InitParent ==
  /\ open = FALSE
  /\ imageSrc = "landscape"
  /\ scale \in ParentScales
  /\ offset \in ParentOffsets
  /\ imageSize = UNKNOWN
  /\ isDragging = FALSE
  /\ dragState = NULL
  /\ capture = {}
  /\ img = "none"
  /\ effects = {}
  /\ exports = [inflight |-> <<>>]
  /\ calls = <<>>
  /\ hist = NoHist
  /\ fn = [n |-> 0, inp |-> ZERO, out |-> ZERO]
  /\ budget = [presses |-> 0, zooms |-> 0, applies |-> MaxApply]

NextParent ==
  \/ \E src \in Images : Open(src)
  \/ Close
  \/ ReclampEffect
  \/ CloseResetEffect
  \/ handleImageLoad
  \/ ImageError
  \/ \E ctx \in BOOLEAN : handleApply(ctx)
  \/ \E i \in 1..Len(exports.inflight), ok \in BOOLEAN : EncodeDone(i, ok)

SpecParent == InitParent /\ [][NextParent]_vars

\* The parent replacing imageSrc while the dialog is shown, next to the
\* zoom controls and the export.
InitSrc ==
  /\ Mounted
  /\ budget = [presses |-> 0, zooms |-> MaxZooms, applies |-> MaxApply]

NextSrc ==
  \/ \E src \in SrcImages : Open(src)
  \/ \E src \in SrcImages : ChangeSrc(src)
  \/ Close
  \/ ReclampEffect
  \/ CloseResetEffect
  \/ handleImageLoad
  \/ ImageError
  \/ ZoomOut
  \/ ZoomIn
  \/ \E value \in SliderValues : Slider(value)
  \/ \E ctx \in BOOLEAN : handleApply(ctx)
  \/ \E i \in 1..Len(exports.inflight), ok \in BOOLEAN : EncodeDone(i, ok)

SpecSrc == InitSrc /\ [][NextSrc]_vars

\* The drag gestures alone: the export stage writes none of the variables
\* the controller and the transform engine read.
InitDrag ==
  /\ Mounted
  /\ budget = [presses |-> MaxDragPresses, zooms |-> MaxZooms, applies |-> 0]

NextDrag == Viewport

SpecDrag == InitDrag /\ [][NextDrag]_vars

\* clampOffset applied to drawn inputs, and applied again to its own result.
\* fn.inp is the first input, fn.out the first result, fn.n the applications.
InitClamp ==
  /\ open = TRUE
  /\ imageSrc = "landscape"
  /\ imageSize \in ClampSizes
  /\ scale \in ClampScales
  /\ offset \in ClampOffsets
  /\ isDragging = FALSE
  /\ dragState = NULL
  /\ capture = {}
  /\ img = IF Known(imageSize) THEN "complete" ELSE "loading"
  /\ effects = {}
  /\ exports = [inflight |-> <<>>]
  /\ calls = <<>>
  /\ budget = [presses |-> 0, zooms |-> 0, applies |-> 0]
  /\ hist = NoHist
  /\ fn = [n |-> 0, inp |-> offset, out |-> offset]

ClampStep ==
  /\ fn.n < MaxClampRuns
  /\ offset' = clampOffset(offset, scale)
  /\ fn' = [n |-> fn.n + 1, inp |-> fn.inp,
            out |-> IF fn.n = 0 THEN offset' ELSE fn.out]
  /\ UNCHANGED <<open, imageSrc, scale, imageSize, isDragging, dragState,
                 capture, img, effects, exports, calls, budget, hist>>

NextClamp == ClampStep

SpecClamp == InitClamp /\ [][NextClamp]_vars

(***************************************************************************)
(* Properties.                                                             *)
(***************************************************************************)
ValidScale == RLe(R(1), scale) /\ RLe(scale, R(3))

\* Displayed size of an axis: native * baseScale * scale.
Display(native, s) == RMul(R(native), RMul(baseScale, s))

\* The bound of the properties: max(0, (native*baseScale*scale - 240) / 2).
PanBound(native, s) ==
  RMax(R(0), RDiv(RSub(Display(native, s), R(240)), R(2)))

Within(o, s) ==
  /\ RLe(RAbs(o.x), PanBound(imageSize.width, s))
  /\ RLe(RAbs(o.y), PanBound(imageSize.height, s))

\* The displayed image, centred in the frame and shifted by o, leaves no
\* part of the 240-unit frame uncovered.
Covers(o, s) ==
  LET left == RAdd(RSub(R(120), RDiv(Display(imageSize.width, s), R(2))), o.x)
      top  == RAdd(RSub(R(120), RDiv(Display(imageSize.height, s), R(2))), o.y)
  IN  /\ RLe(left, R(0))
      /\ RLe(R(240), RAdd(left, Display(imageSize.width, s)))
      /\ RLe(top, R(0))
      /\ RLe(R(240), RAdd(top, Display(imageSize.height, s)))

Plus(o, d) == [x |-> RAdd(o.x, R(d[1])), y |-> RAdd(o.y, R(d[2]))]

Minus(o, d) == [x |-> RSub(o.x, R(d[1])), y |-> RSub(o.y, R(d[2]))]

Made(name) == Len(calls) = 1 /\ calls[1].fn = name

\* C1, as stated: whenever the native dimensions are known and scale is in
\* [1, 3], the stored offset is within the pan bounds on both axes and the
\* displayed image covers the frame, in every reachable state, the state
\* right after the image decoded and right after a zoom change included.
C1_CoverInEveryState ==
  (Known(imageSize) /\ ValidScale) =>
    (Within(offset, scale) /\ Covers(offset, scale))

\* C1, amended: the same holds in every reachable state in which the
\* re-clamp effect is not pending.
C1_CoverWhenSettled ==
  (Known(imageSize) /\ ValidScale /\ "reclamp" \notin effects) =>
    (Within(offset, scale) /\ Covers(offset, scale))

\* C1 witness: the image is decoded, no gesture is in progress, the effects
\* have run after a change from outside the controller, and the offset sits
\* on a positive bound of the x axis.
C1_Witness ==
  /\ Known(imageSize) /\ effects = {} /\ calls = <<>>
  /\ dragState = NULL /\ hist = NoHist
  /\ RLt(R(0), offset.x)
  /\ offset.x = PanBound(imageSize.width, scale)

C3_ClampInRange ==
  (fn.n >= 1 /\ Known(imageSize) /\ ValidScale) =>
    /\ Within(offset, scale)
    /\ Covers(offset, scale)
    /\ RLe(RAbs(fn.inp.x), PanBound(imageSize.width, scale))
         => offset.x = fn.inp.x
    /\ RLe(RAbs(fn.inp.y), PanBound(imageSize.height, scale))
         => offset.y = fn.inp.y

\* C3 witness: a large negative x was pulled to the bound while y, already
\* in range and not zero, was returned as it was.
C3_Witness ==
  /\ fn.n = 1 /\ Known(imageSize)
  /\ fn.inp.x = R(-5000) /\ fn.inp.y = <<81, 2>>
  /\ offset.x = RNeg(PanBound(imageSize.width, scale))
  /\ RLt(offset.x, R(0))
  /\ offset.y = <<81, 2>>

\* C4: clampOffset is idempotent: applied to its own result, with the same
\* scale and size, it returns that result (dimensions known or unknown).
C4_ClampIdempotent == fn.n >= 2 => offset = fn.out

\* C4 witness: the first application changed the input, the second ran.
C4_Witness == fn.n = 2 /\ Known(imageSize) /\ fn.out # fn.inp

\* C5: an axis whose displayed size is exactly 240 has its offset forced to
\* 0; for a 240x480 image at scale 1, baseScale is 1, x is 0 and |y| <= 120.
C5_ExactFitForcesZero ==
  (fn.n >= 1 /\ Known(imageSize)) =>
    /\ Display(imageSize.width, scale) = R(240) => offset.x = R(0)
    /\ Display(imageSize.height, scale) = R(240) => offset.y = R(0)
    /\ (imageSize = [width |-> 240, height |-> 480] /\ scale = R(1)) =>
         /\ baseScale = R(1)
         /\ offset.x = R(0)
         /\ RLe(RAbs(offset.y), R(120))

\* C5 witness: 240x480 at scale 1, a pan attempted on both axes: x is 0 and
\* y stopped at 120.
C5_Witness ==
  /\ fn.n = 1
  /\ imageSize = [width |-> 240, height |-> 480] /\ scale = R(1)
  /\ fn.inp.x = R(5000) /\ fn.inp.y = R(5000)
  /\ offset = [x |-> R(0), y |-> R(120)]

\* C6: a press at P with stored offset O, moves ending at P + D and a
\* release, with scale and image unchanged, leave the stored offset equal to
\* clampOffset(O + D, scale) and the controller idle.
C6_DragSequence ==
  hist.last # NULL =>
    /\ hist.last.final = clampOffset(Plus(hist.last.O, hist.last.D), scale)
    /\ hist.cur = NULL =>
         (offset = hist.last.final /\ dragState = NULL /\ ~isDragging)

\* C6 witness: a completed drag on a decoded image whose delta was cut by
\* the clamp.
C6_Witness ==
  /\ hist.last # NULL /\ hist.cur = NULL /\ Known(imageSize)
  /\ hist.last.D = <<100, 50>>
  /\ hist.last.final # hist.last.O
  /\ hist.last.final # Plus(hist.last.O, hist.last.D)

\* Two drags in a row, the second starting where the first ended and moving
\* by the opposite delta.
BackAndForth ==
  /\ hist.prev # NULL /\ hist.last # NULL
  /\ hist.last.O = hist.prev.final
  /\ hist.last.D = <<-hist.prev.D[1], -hist.prev.D[2]>>

\* C7, as stated: a drag by D from O followed by a fresh drag by -D ends
\* with the stored offset equal to clampOffset(O, scale), for every O and D.
C7_RoundTripAlways ==
  BackAndForth => hist.last.final = clampOffset(hist.prev.O, scale)

\* C7, amended: the second drag ends at clampOffset(clampOffset(O + D) - D),
\* which is clampOffset(O) whenever the first drag was not cut by the clamp.
C7_RoundTripUnclamped ==
  BackAndForth =>
    /\ hist.last.final =
         clampOffset(Minus(clampOffset(Plus(hist.prev.O, hist.prev.D), scale),
                           hist.prev.D), scale)
    /\ hist.prev.final = Plus(hist.prev.O, hist.prev.D)
         => hist.last.final = clampOffset(hist.prev.O, scale)

\* C7 witness: on a decoded image, a drag that stayed inside the bounds and
\* the drag back, ending where the first began.
C7_Witness ==
  /\ BackAndForth /\ Known(imageSize) /\ hist.cur = NULL
  /\ hist.prev.D # <<0, 0>>
  /\ hist.prev.final = Plus(hist.prev.O, hist.prev.D)
  /\ offset = hist.prev.O

\* C8: the state the reset control leaves has scale 1 and offset (0, 0); in
\* it the image covers the frame for the cached native size and clampOffset
\* leaves the offset as it is, so the re-clamp that follows changes nothing.
C8_Reset ==
  Made("onReset") =>
    /\ scale = R(1) /\ offset = ZERO
    /\ clampOffset(offset, scale) = offset
    /\ Known(imageSize) => (Within(offset, scale) /\ Covers(offset, scale))

\* C8 witness: reset activated during a drag on a decoded image.
C8_Witness ==
  Made("onReset") /\ Known(imageSize) /\ isDragging /\ "reclamp" \in effects

\* C9: no drawImage call is made from a cached image size of (0, 0).
C9_NoExportWhileUnknown ==
  \A i \in 1..Len(calls) :
    calls[i].fn = "drawImage" => Known(calls[i].arg.size)

\* C10: every source rectangle handed to drawImage lies inside the image:
\* 0 <= sourceX, 0 <= sourceY, sourceX + sourceSize <= naturalWidth,
\* sourceY + sourceSize <= naturalHeight, sourceSize > 0.
C10_SourceRectInside ==
  \A i \in 1..Len(calls) :
    calls[i].fn = "drawImage" =>
      LET r == calls[i].arg
      IN  /\ RLe(R(0), r.sourceX)
          /\ RLe(R(0), r.sourceY)
          /\ RLe(RAdd(r.sourceX, r.sourceSize), R(r.natural.width))
          /\ RLe(RAdd(r.sourceY, r.sourceSize), R(r.natural.height))
          /\ RLt(R(0), r.sourceSize)

\* The frame mapped back into native pixels: per axis
\* (displaySize / 2 - 240 / 2 - offset) / displayScale, and 240 / displayScale.
Inverse(native, o) ==
  RDiv(RSub(RSub(RDiv(Display(native, scale), R(2)), RDiv(R(240), R(2))), o),
       RMul(baseScale, scale))

\* C11: the rectangle an export samples is the frame mapped back into native
\* pixels, sourceOrigin = (displaySize/2 - 120 - offset) / displayScale and
\* sourceSize = 240 / displayScale with displayScale = baseScale * scale (for
\* 1000x600, scale 1.5, offset (10, -5): origin (850/3, 325/3), size 400), and
\* an export issued again from the same size, scale and offset computes the
\* same rectangle.
C11_ExportGeometry ==
  /\ [](Made("drawImage") =>
          /\ calls[1].arg.sourceX = Inverse(imageSize.width, offset.x)
          /\ calls[1].arg.sourceY = Inverse(imageSize.height, offset.y)
          /\ calls[1].arg.sourceSize = RDiv(R(240), RMul(baseScale, scale))
          /\ (/\ imageSize = [width |-> 1000, height |-> 600]
              /\ scale = <<3, 2>>
              /\ offset = [x |-> R(10), y |-> R(-5)]) =>
               /\ calls[1].arg.sourceX = <<850, 3>>
               /\ calls[1].arg.sourceY = <<325, 3>>
               /\ calls[1].arg.sourceSize = R(400))
  /\ [][(/\ Made("drawImage") /\ Made("drawImage")'
         /\ UNCHANGED <<imageSize, scale, offset, img, imageSrc>>)
          => calls'[1].arg = calls[1].arg]_vars

\* C11 witness: the second of two exports of the 1000x600 image at scale 1.5
\* and offset (10, -5); both sampled the same rectangle.
C11_Witness ==
  /\ Made("drawImage")
  /\ imageSize = [width |-> 1000, height |-> 600]
  /\ scale = <<3, 2>>
  /\ offset = [x |-> R(10), y |-> R(-5)]
  /\ Len(exports.inflight) = 2
  /\ exports.inflight[1] = exports.inflight[2]
  /\ calls[1].arg.sourceX = <<850, 3>>

\* C12: what an export delivers is fixed when Apply is activated: the canvas
\* of an export holds the rectangle computed from the scale, offset and image
\* size of that moment, no zoom, drag, reset or close handled while its encode
\* is in flight alters it, and the blob handed to onApply is the encoding of
\* one of the canvases in flight.
C12_SnapshotAtApply ==
  /\ [][\/ exports'.inflight = exports.inflight
        \/ /\ Made("drawImage")'
           /\ calls'[1].arg = SourceRect
           /\ exports'.inflight = Append(exports.inflight, SourceRect)
        \/ \E i \in 1..Len(exports.inflight) :
             exports'.inflight = Remove(exports.inflight, i)]_vars
  /\ [][Made("onApply")' =>
          \E i \in 1..Len(exports.inflight) :
            /\ calls'[1].arg = [png |-> exports.inflight[i]]
            /\ exports'.inflight = Remove(exports.inflight, i)]_vars

\* C12 witness: a blob is delivered whose rectangle was sampled from a decoded
\* image and is not the one the viewport of the delivery would give.
C12_Witness ==
  /\ Made("onApply")
  /\ Known(calls[1].arg.png.size)
  /\ calls[1].arg.png.sourceX # SourceRect.sourceX
  /\ exports.inflight = <<>>

\* C13: an activation of Apply starts at most one encode and an encode ends
\* in at most one call of onApply, so onApply is called at most once per
\* activation; it is called, with the blob, when the encode yields one, and
\* not when the 2D context is missing or the encode yields null; these two
\* paths leave scale, offset and the drag state as they were.
C13_SinkDiscipline ==
  /\ [](\A k \in 1..Len(calls) :
          calls[k].fn = "onApply" => (Len(calls) = 1 /\ calls[k].arg # NULL))
  /\ [][/\ Made("onApply")' =>
             Len(exports'.inflight) = Len(exports.inflight) - 1
        /\ Len(exports'.inflight) > Len(exports.inflight) =>
             /\ Len(exports'.inflight) = Len(exports.inflight) + 1
             /\ budget'.applies = budget.applies - 1
        /\ \A i \in 1..Len(exports.inflight) :
             /\ EncodeDone(i, TRUE) =>
                  calls' = <<Call("onApply", [png |-> exports.inflight[i]])>>
             /\ EncodeDone(i, FALSE) =>
                  /\ calls' = <<>>
                  /\ UNCHANGED <<scale, offset, dragState, isDragging>>
        /\ handleApply(FALSE) =>
             /\ calls' = <<>>
             /\ UNCHANGED <<exports, scale, offset, dragState, isDragging>>
       ]_vars

\* C13 witness: the one export of the behaviour delivered its blob, no encode
\* is left, and the drag during which it ran is still in progress.
C13_Witness ==
  /\ Made("onApply")
  /\ budget.applies = 0
  /\ exports.inflight = <<>>
  /\ dragState # NULL /\ isDragging

\* C14: once the dialog is closed and the effect of the close has run, no
\* drag session is left: the drag snapshot is discarded and the controller is
\* idle, whether or not a drag was in progress when open became false.
C14_NoDanglingDrag ==
  (~open /\ effects = {}) => (dragState = NULL /\ ~isDragging)

\* C15: in every reachable state in which the controller is idle or the
\* dialog is closed, the crop surface holds no pointer capture.
C15_NoCaptureWhenIdle ==
  (dragState = NULL \/ ~open) => capture = {}

\* A click on a zoom button: it uses up one of the clicks explored.
Clicked == budget'.zooms = budget.zooms - 1

\* C16: from a scale in [1, 3], every value handed to onScaleChange by the
\* zoom buttons and the slider is in [1, 3]; a click changes the scale the way
\* zoom-in does (3 stays 3, and below 2.9 the scale grows by exactly 0.1) or
\* the way zoom-out does (1 stays 1, and above 1.1 it shrinks by exactly 0.1).
C16_ZoomRange ==
  /\ [](Made("onScaleChange") =>
          (RLe(R(1), calls[1].arg.value) /\ RLe(calls[1].arg.value, R(3))))
  /\ [](ValidScale)
  /\ [][Clicked =>
          /\ Made("onScaleChange")' /\ calls'[1].arg.value = scale'
          /\ \/ /\ scale = R(3) => scale' = R(3)
                /\ RLe(RAdd(scale, <<1, 10>>), R(3)) =>
                     scale' = RAdd(scale, <<1, 10>>)
                /\ RLe(scale, scale')
             \/ /\ scale = R(1) => scale' = R(1)
                /\ RLe(R(1), RSub(scale, <<1, 10>>)) =>
                     scale' = RSub(scale, <<1, 10>>)
                /\ RLe(scale', scale)]_vars

\* C16 witness: a zoom button took the scale from 21/20 to 23/20, one step,
\* a value the slider of the model does not deliver.
C16_Witness ==
  /\ Made("onScaleChange")
  /\ calls[1].arg.value = <<23, 20>>
  /\ scale = <<23, 20>>

\* C17: whatever scale and offset the parent holds, once the dialog is shown
\* and the effects of the render have run, the scale is in [1, 3] and, with
\* the native size known, the offset is within the pan bounds; no export is
\* computed from a scale outside [1, 3].
C17_ExternalStateCorrected ==
  /\ (open /\ effects = {}) =>
       (ValidScale /\ (Known(imageSize) => Within(offset, scale)))
  /\ Made("drawImage") => ValidScale

\* The candidate offset of a move to pos: snapshot offset + (pos - press).
Candidate(pos) ==
  [x |-> RAdd(dragState.offsetX, R(pos[1] - dragState.x)),
   y |-> RAdd(dragState.offsetY, R(pos[2] - dragState.y))]

\* C18: press, move, release and leave leave the scale as it was and never
\* call onScaleChange; press, release and leave make no call and leave the
\* offset as it was; the value a move of a drag hands to onOffsetChange is
\* clampOffset(snapshot offset + (pointer - press), scale).
C18_ControllerFrame ==
  /\ hist.ev.kind # "none" =>
       (scale = hist.ev.S /\ ~Made("onScaleChange"))
  /\ hist.ev.kind \in {"press", "press-other", "up"} =>
       (calls = <<>> /\ offset = hist.ev.O)
  /\ (hist.ev.kind = "move" /\ hist.cur # NULL /\ Made("onOffsetChange")) =>
       /\ dragState # NULL
       /\ calls[1].arg = clampOffset(Candidate(hist.cur.at), scale)
       /\ Known(imageSize) => Within(calls[1].arg, scale)

\* C18 witness: a move of a drag on the decoded image just handed on an
\* offset that the clamp had cut.
C18_Witness ==
  /\ Made("onOffsetChange")
  /\ hist.ev.kind = "move"
  /\ dragState # NULL /\ Known(imageSize)
  /\ hist.cur # NULL
  /\ calls[1].arg # Candidate(hist.cur.at)
  /\ offset = calls[1].arg

\* C19: after a press of a non-primary mouse button delivered to the idle
\* controller, the controller is idle with no snapshot, holds no capture it
\* did not hold before, has made no call, and offset and scale are what they
\* were, also after the moves that follow; after a press from touch or the
\* primary mouse button the controller is dragging and holds a capture.
C19_NonPrimaryPressIgnored ==
  /\ (hist.ev.kind = "press-other" /\ hist.ev.idle) =>
       /\ dragState = NULL /\ ~isDragging
       /\ capture \subseteq hist.ev.held
       /\ calls = <<>>
       /\ offset = hist.ev.O /\ scale = hist.ev.S
  /\ hist.ev.kind = "press" =>
       (dragState # NULL /\ isDragging /\ capture # {})

\* C19 witness: a non-primary press on the idle controller, the image decoded
\* and panned by an earlier drag.
C19_Witness ==
  /\ hist.ev.kind = "press-other" /\ hist.ev.idle
  /\ Known(imageSize)
  /\ offset # ZERO
  /\ dragState = NULL

\* C20: while dragging at a fixed scale and image size, the stored offset
\* after a move is clampOffset(snapshot offset + (position - press), scale):
\* a function of the press snapshot and the position of that move alone, the
\* same whether the move came once, twice or after other moves.
C20_MoveHistoryFree ==
  (hist.ev.kind = "move" /\ hist.cur # NULL /\ dragState # NULL) =>
    /\ offset = clampOffset(Candidate(hist.cur.at), scale)
    /\ offset = clampOffset(Plus(hist.cur.O,
                                 <<hist.cur.at[1] - hist.cur.P[1],
                                   hist.cur.at[2] - hist.cur.P[2]>>), scale)

\* C20 witness: the same move delivered twice in a row, away from the press,
\* on the decoded image.
C20_Witness ==
  /\ hist.ev.kind = "move" /\ hist.cur # NULL /\ dragState # NULL
  /\ hist.cur.was = hist.cur.at
  /\ hist.cur.at # hist.cur.P
  /\ Known(imageSize)
  /\ offset # hist.cur.O

\* C21: a run of the re-clamp effect calls onOffsetChange if and only if the
\* clamped offset differs from the stored one, with the clamped offset; the
\* offset the parent then stores is a fixpoint of clampOffset, so the run
\* that follows calls nothing; and a pending re-clamp always comes to rest.
C21_ReclampTerminates ==
  /\ [][ReclampEffect =>
          /\ Made("onOffsetChange")' <=> (clampOffset(offset, scale) # offset)
          /\ calls' # <<>> =>
               calls' = <<Call("onOffsetChange", clampOffset(offset, scale))>>
          /\ offset' = clampOffset(offset, scale)
          /\ clampOffset(offset', scale') = offset'
          /\ "reclamp" \in effects' <=> offset' # offset]_vars
  /\ ("reclamp" \in effects) ~> (effects = {})

\* C21 witness: the effect ran a second time after its own emission and
\* emitted nothing: the offset is at rest on the bound it was cut to.
C21_Witness ==
  /\ effects = {} /\ calls = <<>>
  /\ Known(imageSize)
  /\ fn.inp # offset
  /\ offset = clampOffset(fn.inp, scale)
  /\ budget.zooms = MaxZooms

\* C22: once the dialog is closed and the close-reset effect has run, the
\* cached size is (0, 0) and baseScale is 1; in a shown dialog the cached
\* size is (0, 0) until the image of that session has loaded, so the size
\* of an earlier session is never the cached size of a later one.
C22_CloseDiscardsSize ==
  /\ (~open /\ "closeReset" \notin effects) =>
       (imageSize = UNKNOWN /\ baseScale = R(1))
  /\ (open /\ img # "complete") => (imageSize = UNKNOWN /\ baseScale = R(1))

\* C22 witness: the dialog shown again, its image not yet loaded and the
\* size unknown, with the offset (80, 0) that only the clamp for the size
\* known in the session before produces.
C22_Witness ==
  /\ open /\ img = "loading" /\ effects = {}
  /\ imageSize = UNKNOWN
  /\ offset = [x |-> R(80), y |-> R(0)]

\* C23: in every reachable state isDragging is true exactly when dragState
\* holds a snapshot.
C23_DraggingIffSnapshot ==
  isDragging <=> dragState # NULL

\* C23 witness: the dialog closed during a drag and shown again, with the
\* snapshot and the flag both still set and no pointer captured.
C23_Witness ==
  /\ open /\ img = "loading" /\ effects = {}
  /\ isDragging /\ dragState # NULL
  /\ capture = {}

\* C24: while the cached size is (0, 0), clampOffset returns its argument;
\* after a move of a drag the stored offset is the snapshot offset plus the
\* pointer delta, unclamped, and stays so when the re-clamp effect has run;
\* the only call of onOffsetChange is the one of a move.  Once the size is
\* known, a stored offset outside the pan bounds has the re-clamp effect
\* pending, which runs before any other event is handled.
C24_UnknownSizeIdentity ==
  /\ ~Known(imageSize) =>
       /\ \A o \in ClampOffsets \cup {offset} : clampOffset(o, scale) = o
       /\ (hist.ev.kind = "move" /\ hist.cur # NULL /\ dragState # NULL) =>
            offset = Candidate(hist.cur.at)
       /\ Made("onOffsetChange") =>
            (hist.ev.kind = "move" /\ dragState # NULL)
  /\ (Known(imageSize) /\ ~Within(offset, scale)) =>
       ("reclamp" \in effects /\ ~Ready)

\* C24 witness: during a drag begun before the image loaded, the re-clamp
\* effect that ran after the load just handed on the offset (80, 0), cut
\* from the unclamped one stored while the size was unknown.
C24_Witness ==
  /\ Known(imageSize) /\ img = "complete"
  /\ Made("onOffsetChange")
  /\ hist.ev.kind = "none"
  /\ dragState # NULL
  /\ budget.zooms = MaxZooms
  /\ offset = [x |-> R(80), y |-> R(0)]

\* C25: in every reachable state the cached size is (0, 0) or the natural
\* size of the image that imageSrc designates.
C25_SizeOfCurrentSource ==
  imageSize = UNKNOWN \/ imageSize = Natural(imageSrc)
====
